---- MODULE Spec2Model ----
\* Verification model of delta_exc_data.py: the HTTP fetchers, the candle
\* pagination loop with its tabular assembly, the interactive prompts and the
\* top-N ranking.
EXTENDS Integers, Sequences, FiniteSets, TLC

\* ---------------------------------------------------------------- bounds
MaxTime == 2
MaxLimit == 2
MaxRequests == 2
ApiMaxTime == 11
ApiMaxLimit == 4
MaxTyped == 3
MaxPrompts == 3
MaxTickers == 4
MaxTurnover == 3
MaxN == 2

\* ------------------------------------------------------ program constants
MinYear == 1900
DataFloorYear == 2020
LastSecond == 86399

VARIABLES
    \* get_ohlc_data_paginated, and the candles the exchange holds
    pc, overall_start_timestamp, overall_end_timestamp, limit_per_request,
    current_chunk_start_timestamp, all_candles, requests, output_df, raised,
    available,
    \* get_all_products / get_all_tickers
    fetch_pc, endpoint, response, gets, fetched, fetch_raised,
    \* get_user_input_symbol
    sym_pc, available_symbols, typed, user_symbol, target_symbol, prompts,
    \* get_user_input_date_range
    date_pc, current_utc_time, local_year, start_year, end_year,
    start_date_obj, end_date_obj,
    \* get_top_n_symbols_by_volume
    top_pc, tickers, n, top_n_symbols

pagVars == <<pc, overall_start_timestamp, overall_end_timestamp,
             limit_per_request, current_chunk_start_timestamp, all_candles,
             requests, output_df, raised, available>>

fetchVars == <<fetch_pc, endpoint, response, gets, fetched, fetch_raised>>

symVars == <<sym_pc, available_symbols, typed, user_symbol, target_symbol,
             prompts>>

dateVars == <<date_pc, current_utc_time, local_year, start_year, end_year,
              start_date_obj, end_date_obj>>

topVars == <<top_pc, tickers, n, top_n_symbols>>

vars == <<pagVars, fetchVars, symVars, dateVars, topVars>>

\* Each specification below runs one function of the program; the state of
\* the others stays as it is before they are called.
PagIdle ==
    /\ pc = "idle" /\ overall_start_timestamp = 0 /\ overall_end_timestamp = 0
    /\ limit_per_request = 0 /\ current_chunk_start_timestamp = 0
    /\ all_candles = <<>> /\ requests = <<>> /\ output_df = <<>>
    /\ raised = FALSE /\ available = {}

FetchIdle ==
    /\ fetch_pc = "idle" /\ endpoint = "" /\ response = <<>> /\ gets = 0
    /\ fetched = <<>> /\ fetch_raised = FALSE

SymIdle ==
    /\ sym_pc = "idle" /\ available_symbols = {} /\ typed = <<>>
    /\ user_symbol = <<>>
    /\ target_symbol = <<>> /\ prompts = 0

DateIdle ==
    /\ date_pc = "idle" /\ current_utc_time = <<>> /\ local_year = 0
    /\ start_year = 0 /\ end_year = 0
    /\ start_date_obj = <<>> /\ end_date_obj = <<>>

TopIdle == top_pc = "idle" /\ tickers = <<>> /\ n = 0 /\ top_n_symbols = <<>>

\* ------------------------------------------------------- generic helpers
SeqsUpTo(S, k) == UNION {[1..m -> S] : m \in 0..k}

\* -------------------------------------------------------------- candles
\* A candle is the dict the API returned; the model keeps its 'time' key,
\* which a malformed candle may lack.
Times == 0..MaxTime

Candle(t) == [time |-> t, volume |-> 0]

CandleNoTime == [volume |-> 0]

Candles == {Candle(t) : t \in Times} \cup {CandleNoTime}

HasTime(c) == "time" \in DOMAIN c

\* The outcome of one GET of /v2/history/candles as the loop body sees it.
ErrorResponse == [kind |-> "error", page |-> <<>>]

MalformedResponse == [kind |-> "malformed", page |-> <<>>]

PageResponse(p) == [kind |-> "page", page |-> p]

\* What the API may answer to a request for at most limit candles.
Responses(limit) ==
    {ErrorResponse, MalformedResponse}
        \cup {PageResponse(p) : p \in SeqsUpTo(Candles, limit)}

\* ---------------------------------------------------- tabular assembly
\* df.drop_duplicates(subset=['time']): keep the first row of each time
\* value; rows without a time (NaT) count as duplicates of each other.
SameTime(c, d) ==
    IF HasTime(c) /\ HasTime(d) THEN c.time = d.time
    ELSE ~HasTime(c) /\ ~HasTime(d)

DropDuplicatesKeepAll(s) == s

RECURSIVE DropDuplicates(_)
DropDuplicates(s) ==
    IF s = <<>> THEN <<>>
    ELSE LET front == SubSeq(s, 1, Len(s) - 1)
             c == s[Len(s)]
         IN IF \E i \in DOMAIN front : SameTime(front[i], c)
            THEN DropDuplicates(front)
            ELSE Append(DropDuplicates(front), c)

\* Sort key order of df.sort_values(by='time'): ascending, NaT last.
TimeBefore(c, d) ==
    IF HasTime(c) /\ HasTime(d) THEN c.time <= d.time
    ELSE ~HasTime(d)

RECURSIVE Insert(_, _)
Insert(s, c) ==
    IF s = <<>> THEN <<c>>
    ELSE IF TimeBefore(s[Len(s)], c) THEN Append(s, c)
    ELSE Append(Insert(SubSeq(s, 1, Len(s) - 1), c), s[Len(s)])

RECURSIVE SortValues(_)
SortValues(s) ==
    IF s = <<>> THEN <<>>
    ELSE Insert(SortValues(SubSeq(s, 1, Len(s) - 1)), s[Len(s)])

\* df[(df['time'] >= start) & (df['time'] <= end)]: a NaT row compares
\* False and is dropped.
InRangeNoUpper(c, start, end) == HasTime(c) /\ start <= c.time

InRange(c, start, end) == HasTime(c) /\ start <= c.time /\ c.time <= end

FilterRange(s, start, end) == SelectSeq(s, LAMBDA c : InRange(c, start, end))

\* Lines 208-219. df['time'] raises KeyError when no accumulated candle
\* carries a 'time' key.
Assemble(candles, start, end) ==
    IF candles = <<>> THEN [raised |-> FALSE, rows |-> <<>>]
    ELSE IF \A i \in DOMAIN candles : ~HasTime(candles[i])
    THEN [raised |-> TRUE, rows |-> <<>>]
    ELSE [raised |-> FALSE,
          rows |-> FilterRange(SortValues(DropDuplicates(candles)), start, end)]

\* ------------------------------------------------------ pagination loop
PagInit(starts, ends, limits) ==
    /\ pc = "loop"
    /\ overall_start_timestamp \in starts
    /\ overall_end_timestamp \in ends
    /\ overall_start_timestamp <= overall_end_timestamp + 1
    /\ limit_per_request \in limits
    /\ current_chunk_start_timestamp = overall_start_timestamp
    /\ all_candles = <<>>
    /\ requests = <<>>
    /\ output_df = <<>>
    /\ raised = FALSE

\* Line 193: the next chunk starts just past the last candle received.
NextCursorSame(last_candle_time) == last_candle_time

NextCursorSkip(last_candle_time) == last_candle_time + 2

NextCursor(last_candle_time) == last_candle_time + 1

\* Line 195: a page shorter than the limit ends the fetch.
ShortPageNever(candles_page, limit) == FALSE

ShortPage(candles_page, limit) == Len(candles_page) < limit

\* One pass of the while body (lines 153-206) for the response the GET got.
Iteration(resp) ==
    /\ pc = "loop"
    /\ current_chunk_start_timestamp <= overall_end_timestamp
    /\ requests' = Append(requests,
                          [start |-> current_chunk_start_timestamp,
                           end |-> overall_end_timestamp,
                           limit |-> limit_per_request,
                           response |-> resp])
    /\ IF resp.kind # "page" \/ resp.page = <<>>
       THEN /\ pc' = "assemble"
            /\ UNCHANGED <<all_candles, current_chunk_start_timestamp>>
       ELSE LET candles_page == resp.page
                last == candles_page[Len(candles_page)]
            IN /\ all_candles' = all_candles \o candles_page
               /\ IF ~HasTime(last)
                  THEN /\ pc' = "assemble"
                       /\ UNCHANGED current_chunk_start_timestamp
                  ELSE IF last.time >= overall_end_timestamp
                  THEN /\ pc' = "assemble"
                       /\ UNCHANGED current_chunk_start_timestamp
                  ELSE /\ current_chunk_start_timestamp' = NextCursor(last.time)
                       /\ pc' = IF ShortPage(candles_page, limit_per_request)
                                THEN "assemble" ELSE "loop"
    /\ UNCHANGED <<overall_start_timestamp, overall_end_timestamp,
                   limit_per_request, output_df, raised, available>>
    /\ UNCHANGED <<fetchVars, symVars, dateVars, topVars>>

\* The while condition of line 153 is false.
LoopExit ==
    /\ pc = "loop"
    /\ current_chunk_start_timestamp > overall_end_timestamp
    /\ pc' = "assemble"
    /\ UNCHANGED <<overall_start_timestamp, overall_end_timestamp,
                   limit_per_request, current_chunk_start_timestamp,
                   all_candles, requests, output_df, raised, available>>
    /\ UNCHANGED <<fetchVars, symVars, dateVars, topVars>>

\* Lines 208-219.
Finish ==
    /\ pc = "assemble"
    /\ LET r == Assemble(all_candles, overall_start_timestamp,
                         overall_end_timestamp)
       IN /\ output_df' = r.rows
          /\ raised' = r.raised
    /\ pc' = "done"
    /\ UNCHANGED <<overall_start_timestamp, overall_end_timestamp,
                   limit_per_request, current_chunk_start_timestamp,
                   all_candles, requests, available>>
    /\ UNCHANGED <<fetchVars, symVars, dateVars, topVars>>

\* The API may answer anything.
AnyIteration ==
    /\ Len(requests) < MaxRequests
    /\ \E resp \in Responses(limit_per_request) : Iteration(resp)

\* The window starts at 1, so that time 0 lies before every window, and ends
\* anywhere in Times (an end one below the start is an empty window).
InitPaginate ==
    /\ PagInit({1}, Times, 1..MaxLimit)
    /\ available = {}
    /\ FetchIdle /\ SymIdle /\ DateIdle /\ TopIdle

NextPaginate == AnyIteration \/ LoopExit \/ Finish

SpecPaginate == InitPaginate /\ [][NextPaginate]_vars

\* ---------------------------------------------------------- HTTP fetchers
\* JSON values a response body may parse to.
JNull == [type |-> "null"]

JNumber == [type |-> "number"]

JString(text) == [type |-> "string", text |-> text]

JArray(items) == [type |-> "array", items |-> items]

JObject(members) == [type |-> "object", members |-> members]

Item(symbol) == JObject([symbol |-> JString(symbol)])

ResultLists == {<<>>, <<Item("BTCUSD")>>, <<Item("BTCUSD"), Item("ETHUSD")>>}

JsonValues ==
    {JNull, JNumber, JString("result"), JString("ok"),
     JArray(<<JString("result")>>), JArray(<<>>),
     JObject([message |-> JString("error")]),
     JObject([result |-> JNull]),
     JObject([result |-> JString("ok")]),
     JObject([result |-> JObject([symbol |-> JString("BTCUSD")])])}
        \cup {JObject([result |-> JArray(l)]) : l \in ResultLists}

Bodies == {[json |-> FALSE, value |-> JNull]}
              \cup {[json |-> TRUE, value |-> j] : j \in JsonValues}

Statuses == {200, 201, 300, 304, 400, 404, 500, 503}

\* What requests.get(endpoint, timeout=10) comes back with.
HttpOutcomes ==
    {[outcome |-> o, status |-> 0, body |-> [json |-> FALSE, value |-> JNull]] :
        o \in {"connection_error", "timeout"}}
        \cup {[outcome |-> "response", status |-> st, body |-> b] :
                st \in Statuses, b \in Bodies}

\* response.raise_for_status(): HTTPError for 4xx and 5xx.
RaisesForStatusNever(status) == FALSE

RaisesForStatus(status) == 400 <= status /\ status < 600

\* 'result' in json_response: "raise" is the TypeError of a value that is
\* no container.
ContainsResult(j) ==
    CASE j.type = "object" -> IF "result" \in DOMAIN j.members THEN "yes" ELSE "no"
      [] j.type = "array" ->
            IF \E i \in DOMAIN j.items : j.items[i] = JString("result")
            THEN "yes" ELSE "no"
      [] j.type = "string" -> IF j.text = "result" THEN "yes" ELSE "no"
      [] OTHER -> "raise"

\* Lines 28-46 and 61-79: the value the fetcher returns for an outcome of
\* its GET. Every exception is caught by one of the two except clauses,
\* which return [].
FetchList(r) ==
    IF r.outcome # "response" THEN <<>>
    ELSE IF RaisesForStatus(r.status) THEN <<>>
    ELSE IF ~r.body.json THEN <<>>
    ELSE LET json_response == r.body.value
         IN IF ContainsResult(json_response) # "yes" THEN <<>>
            \* json_response['result'] of a list or a string: TypeError
            ELSE IF json_response.type # "object" THEN <<>>
            ELSE IF json_response.members.result.type = "array"
            THEN json_response.members.result.items
            ELSE <<>>

Fetcher(name, r) ==
    /\ fetch_pc = "ready"
    /\ endpoint' = name
    /\ response' = r
    /\ gets' = gets + 1
    /\ fetched' = FetchList(r)
    /\ fetch_raised' = FALSE
    /\ fetch_pc' = "done"
    /\ UNCHANGED <<pagVars, symVars, dateVars, topVars>>

get_all_products == \E r \in HttpOutcomes : Fetcher("/v2/products", r)

get_all_tickers == \E r \in HttpOutcomes : Fetcher("/v2/tickers", r)

InitFetch ==
    /\ fetch_pc = "ready" /\ endpoint = "" /\ response = <<>> /\ gets = 0
    /\ fetched = <<>> /\ fetch_raised = FALSE
    /\ PagIdle /\ SymIdle /\ DateIdle /\ TopIdle

NextFetch == get_all_products \/ get_all_tickers

SpecFetch == InitFetch /\ [][NextFetch]_vars

\* --------------------------------------------------------- symbol prompt
\* A string is the sequence of its characters.
Chars == {" ", "a", "A", "B"}

\* str.strip(): drop leading and trailing whitespace.
RECURSIVE LStrip(_)
LStrip(str) ==
    IF str # <<>> /\ str[1] = " " THEN LStrip(Tail(str)) ELSE str

RECURSIVE RStrip(_)
RStrip(str) ==
    IF str # <<>> /\ str[Len(str)] = " "
    THEN RStrip(SubSeq(str, 1, Len(str) - 1)) ELSE str

Strip(str) == RStrip(LStrip(str))

\* str.upper()
UpperChar(ch) == IF ch = "a" THEN "A" ELSE ch

UpperKeepsCase(str) == str

Upper(str) == [i \in DOMAIN str |-> UpperChar(str[i])]

\* The symbols the products endpoint listed; the main block exits before
\* prompting when there is none (lines 292-294).
ListedSymbols == {<<"A">>, <<"A", "B">>, <<"a">>, <<"B", " ", "A">>}

\* One pass of the while True loop of lines 226-234 for one typed line.
get_user_input_symbol(line) ==
    /\ sym_pc = "prompt"
    /\ prompts < MaxPrompts
    /\ prompts' = prompts + 1
    /\ typed' = line
    /\ user_symbol' = Upper(Strip(line))
    /\ IF user_symbol' \in available_symbols
       THEN /\ target_symbol' = user_symbol'
            /\ sym_pc' = "returned"
       ELSE /\ sym_pc' = "prompt"
            /\ UNCHANGED target_symbol
    /\ UNCHANGED available_symbols
    /\ UNCHANGED <<pagVars, fetchVars, dateVars, topVars>>

PromptSymbol == \E line \in SeqsUpTo(Chars, MaxTyped) : get_user_input_symbol(line)

InitSymbol ==
    /\ sym_pc = "prompt"
    /\ available_symbols \in (SUBSET ListedSymbols) \ {{}}
    /\ typed = <<>> /\ user_symbol = <<>> /\ target_symbol = <<>>
    /\ prompts = 0
    /\ PagIdle /\ FetchIdle /\ DateIdle /\ TopIdle

NextSymbol == PromptSymbol

SpecSymbol == InitSymbol /\ [][NextSymbol]_vars

\* ------------------------------------------------------ date-range prompt
\* A datetime is (year, day of the year, second of the day, microsecond);
\* all of them are UTC.
DateTime(y, d, sec, us) == [year |-> y, day |-> d, second |-> sec, micro |-> us]

IsLeap(y) == (y % 4 = 0 /\ y % 100 # 0) \/ y % 400 = 0

DaysInYear(y) == IF IsLeap(y) THEN 366 ELSE 365

\* datetime(y, 1, 1, 0, 0, 0) and datetime(y, 12, 31, 23, 59, 59)
Jan1(y) == DateTime(y, 1, 0, 0)

Dec31(y) == DateTime(y, DaysInYear(y), LastSecond, 0)

\* a > b on datetimes
After(a, b) ==
    \/ a.year > b.year
    \/ a.year = b.year /\ a.day > b.day
    \/ a.year = b.year /\ a.day = b.day /\ a.second > b.second
    \/ a.year = b.year /\ a.day = b.day /\ a.second = b.second
        /\ a.micro > b.micro

\* current_utc_time.replace(hour=23, minute=59, second=59, microsecond=0)
EndOfDay(t) == DateTime(t.year, t.day, LastSecond, 0)

\* Lines 271-273: the end handed back for an end year and a clock reading.
ClampEnd(end, now_utc) == IF After(end, now_utc) THEN EndOfDay(now_utc) ELSE end

\* The clock readings of the model, and the year datetime.now() shows on a
\* local clock that may be ahead of or behind UTC.
ClockReadings ==
    UNION {{DateTime(y, 1, 0, 0),
            DateTime(y, 100, 0, 0),
            DateTime(y, 100, LastSecond, 500000),
            DateTime(y, DaysInYear(y), 0, 0),
            DateTime(y, DaysInYear(y), LastSecond, 0),
            DateTime(y, DaysInYear(y), LastSecond, 500000)} : y \in {2023, 2024}}

LocalYears(t) ==
    {t.year}
        \cup (IF t.day = 1 /\ t.second = 0 THEN {t.year - 1} ELSE {})
        \cup (IF t.day = DaysInYear(t.year) /\ t.second = LastSecond
              THEN {t.year + 1} ELSE {})

\* What the user may type for a year: text int() rejects, or an integer.
NotANumber == [valid |-> FALSE, value |-> 0]

Typed(y) == [valid |-> TRUE, value |-> y]

YearInputs ==
    {NotANumber}
        \cup {Typed(y) : y \in {1899, MinYear, DataFloorYear, 2023, 2024, 2025}}

\* One pass of the while True loop of lines 240-280.
get_user_input_date_range(a, b, now_utc, now_local_year) ==
    /\ date_pc = "prompt"
    /\ current_utc_time' = now_utc
    /\ local_year' = now_local_year
    /\ IF ~a.valid
       THEN \* int() raises ValueError on the first line
            /\ date_pc' = "prompt"
            /\ UNCHANGED <<start_year, end_year, start_date_obj, end_date_obj>>
       ELSE IF ~b.valid
       THEN /\ start_year' = a.value
            /\ date_pc' = "prompt"
            /\ UNCHANGED <<end_year, start_date_obj, end_date_obj>>
       ELSE /\ start_year' = a.value
            /\ end_year' = b.value
            /\ IF ~(/\ MinYear <= a.value /\ a.value <= now_local_year
                    /\ MinYear <= b.value /\ b.value <= now_local_year)
                  \/ a.value > b.value
               THEN /\ date_pc' = "prompt"
                    /\ UNCHANGED <<start_date_obj, end_date_obj>>
               ELSE /\ start_date_obj' = Jan1(a.value)
                    /\ end_date_obj' = ClampEnd(Dec31(b.value), now_utc)
                    /\ date_pc' = "returned"
    /\ UNCHANGED <<pagVars, fetchVars, symVars, topVars>>

PromptDateRange ==
    \E a, b \in YearInputs, now_utc \in ClockReadings :
        \E now_local_year \in LocalYears(now_utc) :
            get_user_input_date_range(a, b, now_utc, now_local_year)

InitDate ==
    /\ date_pc = "prompt"
    /\ current_utc_time = Jan1(1970) /\ local_year = 0
    /\ start_year = 0 /\ end_year = 0
    /\ start_date_obj = Jan1(1970) /\ end_date_obj = Jan1(1970)
    /\ PagIdle /\ FetchIdle /\ SymIdle /\ TopIdle

NextDate == PromptDateRange

SpecDate == InitDate /\ [][NextDate]_vars

\* ---------------------------------------------------------- top-N ranking
\* The value a ticker carries under 'turnover_usd': a number, a string
\* holding a number, any other string, or null.
Number(k) == [kind |-> "number", value |-> k]

NumericString(k) == [kind |-> "string", numeric |-> TRUE, value |-> k]

OtherString == [kind |-> "string", numeric |-> FALSE, value |-> 0]

Null == [kind |-> "null"]

TurnoverValues ==
    {Number(k) : k \in 1..MaxTurnover}
        \cup {NumericString(MaxTurnover), OtherString, Null}

\* A ticker dict, with or without the 'turnover_usd' key.
Tickers ==
    {[symbol |-> "S"]}
        \cup {[symbol |-> "S", turnover_usd |-> v] : v \in TurnoverValues}

HasTurnover(t) == "turnover_usd" \in DOMAIN t

\* pd.to_numeric(..., errors='coerce') of one cell; a missing key is already
\* NaN in the frame.
NaN == [nan |-> TRUE, value |-> 0]

Float(k) == [nan |-> FALSE, value |-> k]

ToNumeric(t) ==
    IF ~HasTurnover(t) THEN NaN
    ELSE LET v == t.turnover_usd
         IN CASE v.kind = "number" -> Float(v.value)
              [] v.kind = "string" -> IF v.numeric THEN Float(v.value) ELSE NaN
              [] OTHER -> NaN

\* Lines 108-109: the frame's rows, by index label, that survive dropna.
RECURSIVE DropNa(_, _)
DropNa(ts, i) ==
    IF i > Len(ts) THEN <<>>
    ELSE IF ToNumeric(ts[i]).nan THEN DropNa(ts, i + 1)
    ELSE <<[index |-> i, turnover_usd |-> ToNumeric(ts[i]).value]>>
             \o DropNa(ts, i + 1)

\* Line 110: sort_values(ascending=False); the default sort is not stable,
\* so rows of equal turnover come in any order.
OrderedAscending(a, b) == a <= b

Ordered(a, b) == a >= b

SortedFrames(rows) ==
    {[i \in DOMAIN rows |-> rows[perm[i]]] :
        perm \in {q \in [DOMAIN rows -> DOMAIN rows] :
                    /\ \A i, j \in DOMAIN rows : i # j => q[i] # q[j]
                    /\ \A i \in 1..(Len(rows) - 1) :
                        Ordered(rows[q[i]].turnover_usd,
                                rows[q[i + 1]].turnover_usd)}}

\* df.head(k)
DfHead(rows, k) ==
    IF k >= 0 THEN SubSeq(rows, 1, IF k < Len(rows) THEN k ELSE Len(rows))
    ELSE SubSeq(rows, 1, IF Len(rows) + k > 0 THEN Len(rows) + k ELSE 0)

get_top_n_symbols_by_volume ==
    /\ top_pc = "ready"
    /\ IF tickers = <<>> \/ \A i \in DOMAIN tickers : ~HasTurnover(tickers[i])
       THEN top_n_symbols' = <<>>
       ELSE \E df_sorted \in SortedFrames(DropNa(tickers, 1)) :
                top_n_symbols' = DfHead(df_sorted, n)
    /\ top_pc' = "done"
    /\ UNCHANGED <<tickers, n>>
    /\ UNCHANGED <<pagVars, fetchVars, symVars, dateVars>>

\* tickers is what get_all_tickers returned; n counts symbols.
InitTop ==
    /\ top_pc = "ready"
    /\ tickers \in SeqsUpTo(Tickers, MaxTickers)
    /\ n \in 0..MaxN
    /\ top_n_symbols = <<>>
    /\ PagIdle /\ FetchIdle /\ SymIdle /\ DateIdle

NextTop == get_top_n_symbols_by_volume

SpecTop == InitTop /\ [][NextTop]_vars

\* --------------------------------------------- a well-behaved exchange
RECURSIVE Ascending(_)
Ascending(S) ==
    IF S = {} THEN <<>>
    ELSE LET m == CHOOSE x \in S : \A y \in S : x <= y
         IN <<Candle(m)>> \o Ascending(S \ {m})

\* The exchange answers (start, end, limit) with the earliest
\* min(limit, remaining) candles it has in [start, end], ascending.
ApiAnswer(start, end, limit) ==
    LET inWindow == Ascending({t \in available : start <= t /\ t <= end})
    IN SubSeq(inWindow, 1, IF Len(inWindow) < limit THEN Len(inWindow) ELSE limit)

ExchangeIteration ==
    Iteration(PageResponse(ApiAnswer(current_chunk_start_timestamp,
                                     overall_end_timestamp,
                                     limit_per_request)))

InitExchange ==
    /\ PagInit({1}, {0, ApiMaxTime - 1, ApiMaxTime}, 1..ApiMaxLimit)
    /\ available \in SUBSET (0..ApiMaxTime)
    /\ FetchIdle /\ SymIdle /\ DateIdle /\ TopIdle

NextExchange == ExchangeIteration \/ LoopExit \/ Finish

SpecExchange == InitExchange /\ [][NextExchange]_vars

\* ------------------------------------------- claims on the pagination run
Returned == pc = "done" /\ ~raised

IsShortPage(r) ==
    /\ r.response.kind = "page"
    /\ r.response.page # <<>>
    /\ Len(r.response.page) < r.limit

\* The iteration stopped without a usable page: an exception, a malformed
\* envelope or an empty page.
IsFailure(r) ==
    \/ r.response.kind # "page"
    \/ r.response.page = <<>>
    \/ ~HasTime(r.response.page[Len(r.response.page)])

RECURSIVE PagesOf(_)
PagesOf(reqs) ==
    IF reqs = <<>> THEN <<>>
    ELSE PagesOf(SubSeq(reqs, 1, Len(reqs) - 1)) \o reqs[Len(reqs)].response.page

\* C1: the timestamps of the returned table are strictly ascending, so each
\* timestamp appears at most once, whatever pages the API sent.
C1_StrictlyAscending ==
    Returned =>
        \A i \in 1..(Len(output_df) - 1) :
            output_df[i].time < output_df[i + 1].time

\* C1 witness: the pages repeated a timestamp and also arrived out of
\* order, and the returned table has at least two rows.
C1_Witness ==
    /\ Returned
    /\ Len(output_df) >= 2
    /\ \E i, j \in DOMAIN all_candles :
        /\ i < j /\ HasTime(all_candles[i]) /\ HasTime(all_candles[j])
        /\ all_candles[i].time = all_candles[j].time
    /\ \E i, j \in DOMAIN all_candles :
        /\ i < j /\ HasTime(all_candles[i]) /\ HasTime(all_candles[j])
        /\ all_candles[i].time > all_candles[j].time

\* C2: every row of the returned table lies in [start, end], both bounds
\* inclusive, even when the API returned candles outside that range.
C2_WithinRange ==
    Returned =>
        \A i \in DOMAIN output_df :
            /\ overall_start_timestamp <= output_df[i].time
            /\ output_df[i].time <= overall_end_timestamp

\* C2 witness: the API returned a candle before start and one after end,
\* and the table still has a row.
C2_Witness ==
    /\ Returned
    /\ output_df # <<>>
    /\ \E i \in DOMAIN all_candles :
        HasTime(all_candles[i]) /\ all_candles[i].time < overall_start_timestamp
    /\ \E i \in DOMAIN all_candles :
        HasTime(all_candles[i]) /\ all_candles[i].time > overall_end_timestamp

\* C3: against the well-behaved exchange the returned table holds exactly
\* the candles available in [overall start, overall end], each once; with
\* 10 of them and a limit of 4 there are exactly 3 requests, with pages of
\* 4, 4 and 2 candles, and 10 rows.
InWindow ==
    {t \in available :
        overall_start_timestamp <= t /\ t <= overall_end_timestamp}

C3_ExactlyAvailable ==
    pc = "done" =>
        /\ ~raised
        /\ {output_df[i].time : i \in DOMAIN output_df} = InWindow
        /\ Len(output_df) = Cardinality(InWindow)
        /\ (Cardinality(InWindow) = 10 /\ limit_per_request = 4) =>
            /\ Len(requests) = 3
            /\ Len(requests[1].response.page) = 4
            /\ Len(requests[2].response.page) = 4
            /\ Len(requests[3].response.page) = 2
            /\ Len(output_df) = 10

\* C3 witness: the run of the example has ended: 10 available candles in
\* the window, limit 4, three requests made.
C3_Witness ==
    /\ pc = "done"
    /\ Cardinality(InWindow) = 10
    /\ limit_per_request = 4
    /\ Len(requests) = 3
    /\ Len(output_df) = 10

\* C4: a non-empty page shorter than limit_per_request is appended to the
\* accumulated candles and is the last request of the run, whether or not
\* its last candle reached overall_end.
C4_ShortPageStops ==
    \A i \in DOMAIN requests :
        IsShortPage(requests[i]) =>
            /\ i = Len(requests)
            /\ pc # "loop"
            /\ all_candles = PagesOf(requests)

\* C4 witness: the run ended on a short page whose last candle is older
\* than overall_end, and that page is in the accumulated candles.
C4_Witness ==
    /\ pc = "done"
    /\ requests # <<>>
    /\ LET r == requests[Len(requests)]
           p == r.response.page
       IN /\ IsShortPage(r)
          /\ HasTime(p[Len(p)])
          /\ p[Len(p)].time < overall_end_timestamp
          /\ Len(all_candles) >= Len(p)
          /\ SubSeq(all_candles, Len(all_candles) - Len(p) + 1,
                    Len(all_candles)) = p

\* C6 (as stated): an exception, a malformed envelope or an empty page ends
\* the loop with no further request, and the function returns, without
\* raising, the table of the candles accumulated so far; it is empty when
\* the first request already failed.
C6_PartialResultNoRaise ==
    /\ \A i \in DOMAIN requests :
        IsFailure(requests[i]) => i = Len(requests) /\ pc # "loop"
    /\ pc = "done" =>
        /\ ~raised
        /\ output_df = Assemble(PagesOf(requests), overall_start_timestamp,
                                overall_end_timestamp).rows
    /\ (pc = "done" /\ requests # <<>> /\ requests[1].response.kind # "page")
           => output_df = <<>>

\* C10: every request has start = cursor <= overall_end and end =
\* overall_end; if every page ends on a candle not older than its request's
\* start, the request starts strictly increase and there are at most
\* overall_end - overall_start + 1 requests.
LastNotBeforeStart(r) ==
    (r.response.kind = "page" /\ r.response.page # <<>>) =>
        LET last == r.response.page[Len(r.response.page)]
        IN HasTime(last) /\ last.time >= r.start

C10_CursorAdvances ==
    /\ \A i \in DOMAIN requests :
        /\ requests[i].start <= overall_end_timestamp
        /\ requests[i].end = overall_end_timestamp
    /\ requests # <<>> => requests[1].start = overall_start_timestamp
    /\ (\A i \in DOMAIN requests : LastNotBeforeStart(requests[i])) =>
        /\ \A i \in 1..(Len(requests) - 1) :
            requests[i].start < requests[i + 1].start
        /\ Len(requests) <= overall_end_timestamp - overall_start_timestamp + 1

\* C10 witness: two requests were issued under the precondition, the
\* second from a later cursor.
C10_Witness ==
    /\ Len(requests) >= 2
    /\ \A i \in DOMAIN requests : LastNotBeforeStart(requests[i])
    /\ requests[1].start < requests[2].start

\* C10, the parenthesis: a full page ending before the request's start
\* leaves the cursor where it was or moves it back.
C10_StalledCursor ==
    /\ Len(requests) >= 2
    /\ requests[2].start <= requests[1].start

\* ------------------------------------------------- claims on the fetchers
IsResultList(r) ==
    /\ r.outcome = "response"
    /\ r.body.json
    /\ r.body.value.type = "object"
    /\ "result" \in DOMAIN r.body.value.members
    /\ r.body.value.members.result.type = "array"

\* C5 (as stated): one GET, never an exception, and the 'result' list
\* exactly when the status is 2xx and 'result' is a list; an empty list for
\* every other outcome.
C5_EmptyUnlessSuccess ==
    fetch_pc = "done" =>
        /\ gets = 1
        /\ ~fetch_raised
        /\ fetched =
            IF IsResultList(response)
               /\ 200 <= response.status /\ response.status < 300
            THEN response.body.value.members.result.items
            ELSE <<>>

\* C5 (amended): one GET, never an exception, and the 'result' list exactly
\* when the status is not 4xx or 5xx and 'result' is a list; an empty list
\* for every other outcome.
C5_EmptyUnlessNoHttpError ==
    fetch_pc = "done" =>
        /\ gets = 1
        /\ ~fetch_raised
        /\ fetched =
            IF IsResultList(response)
               /\ ~(400 <= response.status /\ response.status < 600)
            THEN response.body.value.members.result.items
            ELSE <<>>

\* C5 witness: a fetcher got a 5xx answer carrying a non-empty 'result'
\* list and returned the empty list.
C5_Witness ==
    /\ fetch_pc = "done"
    /\ IsResultList(response)
    /\ response.body.value.members.result.items # <<>>
    /\ response.status >= 500
    /\ fetched = <<>>

\* ------------------------------------------- claims on the symbol prompt
\* line, with its surrounding blanks removed and its letters upper-cased,
\* is sym: stated on the characters, apart from Strip and Upper.
IsNormalForm(line, sym) ==
    /\ \A i \in DOMAIN sym : sym[i] # "a"
    /\ sym # <<>> => sym[1] # " " /\ sym[Len(sym)] # " "
    /\ \E lead \in 0..Len(line) :
        /\ lead + Len(sym) <= Len(line)
        /\ \A i \in DOMAIN line :
            IF i <= lead \/ i > lead + Len(sym)
            THEN line[i] = " "
            ELSE \/ line[i] = sym[i - lead]
                 \/ line[i] = "a" /\ sym[i - lead] = "A"

\* C7: the prompt returns only a member of the available symbols, namely
\* the typed line trimmed and upper-cased; after a line that is no member
\* it has not returned and is prompting again, however many such lines
\* came before; after a line that is a member it has returned.
C7_OnlyListedSymbols ==
    /\ sym_pc = "returned" =>
        /\ target_symbol \in available_symbols
        /\ target_symbol = user_symbol
    /\ prompts > 0 =>
        /\ IsNormalForm(typed, user_symbol)
        /\ user_symbol \notin available_symbols => sym_pc = "prompt"
        /\ user_symbol \in available_symbols => sym_pc = "returned"

\* C7 witness: after two rejected lines a line with blanks and a lower-case
\* letter was accepted.
C7_Witness ==
    /\ sym_pc = "returned"
    /\ prompts = 3
    /\ typed # target_symbol
    /\ \E i \in DOMAIN typed : typed[i] = "a"

\* --------------------------------------- claims on the date-range prompt
\* C8 (as stated): an end of Dec 31 23:59:59 that lies after the current
\* moment is replaced by the current moment, so the returned end never
\* exceeds now; otherwise the returned end is Dec 31 23:59:59 of the end
\* year.
C8_EndClampedToNow ==
    date_pc = "returned" =>
        /\ end_date_obj =
            IF After(Dec31(end_year), current_utc_time)
            THEN current_utc_time ELSE Dec31(end_year)
        /\ ~After(end_date_obj, current_utc_time)

\* ------------------------------------------ claims on the top-N ranking
IsNumeric(t) ==
    /\ HasTurnover(t)
    /\ \/ t.turnover_usd.kind = "number"
       \/ t.turnover_usd.kind = "string" /\ t.turnover_usd.numeric

Included == {top_n_symbols[i].index : i \in DOMAIN top_n_symbols}

\* C9: the result has at most n rows, in non-increasing turnover; every row
\* is a ticker of numeric turnover, shown with that turnover; every ticker
\* of numeric turnover left out has no more turnover than any row; the
\* result is empty without tickers or without any turnover_usd field.
C9_TopNDescending ==
    top_pc = "done" =>
        /\ Len(top_n_symbols) <= n
        /\ \A i \in 1..(Len(top_n_symbols) - 1) :
            top_n_symbols[i].turnover_usd >= top_n_symbols[i + 1].turnover_usd
        /\ \A i \in DOMAIN top_n_symbols :
            /\ top_n_symbols[i].index \in DOMAIN tickers
            /\ IsNumeric(tickers[top_n_symbols[i].index])
            /\ top_n_symbols[i].turnover_usd
                 = tickers[top_n_symbols[i].index].turnover_usd.value
        /\ \A j \in DOMAIN tickers :
            (j \notin Included /\ IsNumeric(tickers[j])) =>
                \A i \in DOMAIN top_n_symbols :
                    tickers[j].turnover_usd.value <= top_n_symbols[i].turnover_usd
        /\ (\A j \in DOMAIN tickers : ~HasTurnover(tickers[j]))
               => top_n_symbols = <<>>

\* C9 witness: two rows of different turnover were returned, a ticker of
\* smaller numeric turnover and one of non-numeric turnover were left out.
C9_Witness ==
    /\ top_pc = "done"
    /\ Len(top_n_symbols) = 2
    /\ top_n_symbols[1].turnover_usd > top_n_symbols[2].turnover_usd
    /\ \E j \in DOMAIN tickers :
        /\ j \notin Included /\ IsNumeric(tickers[j])
        /\ tickers[j].turnover_usd.value < top_n_symbols[2].turnover_usd
    /\ \E j \in DOMAIN tickers :
        HasTurnover(tickers[j]) /\ ~IsNumeric(tickers[j])

====
